---- MODULE Spec2Model ----
(***************************************************************************)
(* Nutrition Dashboard backend: the Blob Trigger pipeline that precomputes *)
(* every artifact into the Redis cache, and the action-routed HTTP API     *)
(* (health, get-charts, get-insights, get-recipes) that answers from the   *)
(* cache only.  Cache keys are the fixed names of the Redis Keys Summary.  *)
(***************************************************************************)
EXTENDS Integers, Sequences, FiniteSets, TLC

\* ---------------------------------------------------------------- bounds
MaxRuns == 2
MaxWorkers == 2

Workers == 1..MaxWorkers

\* ---------------------------------------------------------------- records
Missing == 0 - 1

Rec(i, n, d, c, p) == [id |-> i, name |-> n, diet |-> d, cuisine |-> c, protein |-> p]

\* Contents All_Diets.csv can have when it is uploaded.  A recipe name is the
\* sequence of its characters.
DatasetAB ==
  << Rec(1, <<"R", "a">>, "A", "x", 10), Rec(2, <<"r", "b">>, "A", "y", 30),
     Rec(3, <<"a", "b">>, "B", "x", 20), Rec(4, <<"B", "c">>, "B", "y", 40) >>

DatasetA ==
  << Rec(1, <<"R", "a">>, "A", "x", 50), Rec(2, <<"r", "c">>, "A", "x", Missing) >>

Datasets == {DatasetAB, DatasetA}

DietOrder == <<"A", "B">>
CuisineOrder == <<"x", "y">>
Diets == {DietOrder[i] : i \in DOMAIN DietOrder}
Cuisines == {CuisineOrder[i] : i \in DOMAIN CuisineOrder}

\* ---------------------------------------------------------------- helpers
RECURSIVE SumSeq(_)
SumSeq(s) == IF s = <<>> THEN 0 ELSE Head(s) + SumSeq(Tail(s))

Proteins(t) == [i \in DOMAIN t |-> t[i].protein]

\* df.mean(): the mean of the present values of the column
ColumnMean(t) ==
  LET present == SelectSeq(Proteins(t), LAMBDA p : p # Missing)
  IN IF present = <<>> THEN 0 ELSE SumSeq(present) \div Len(present)

\* df.fillna(df.mean(numeric_only=True)): missing numeric values get the column mean
load_and_clean_data(raw) ==
  [i \in DOMAIN raw |->
     IF raw[i].protein = Missing
     THEN [raw[i] EXCEPT !.protein = ColumnMean(raw)]
     ELSE raw[i]]

DietsOf(t) == {t[i].diet : i \in DOMAIN t}
CuisinesOf(t) == {t[i].cuisine : i \in DOMAIN t}

\* ---------------------------------------------------------------- cache keys
KeyCleaned == <<"cleaned_data">>
KeyBar == <<"charts", "bar_chart">>
KeyHeatmap == <<"charts", "heatmap">>
KeyScatter == <<"charts", "scatter_plot">>
KeyInsights == <<"insights", "summary">>
KeyAll == <<"recipes", "all">>
KeyDiet(d) == <<"recipes", "diet", d>>
KeyCuisine(c) == <<"recipes", "cuisine", c>>
KeyMetadata == <<"metadata">>

ChartKeys == <<KeyBar, KeyHeatmap, KeyScatter>>
DietKeys == {KeyDiet(d) : d \in Diets}
CuisineKeys == {KeyCuisine(c) : c \in Cuisines}
SnapshotKeys == {KeyAll} \cup DietKeys \cup CuisineKeys

Keys == {KeyCleaned, KeyBar, KeyHeatmap, KeyScatter, KeyInsights, KeyMetadata}
          \cup SnapshotKeys

\* The keys other than the one that says which run is current.
ArtifactKeys == Keys \ {KeyMetadata}

\* A cache entry: the run that stored it and what it stored; run 0 = key absent.
Absent == [run |-> 0, data |-> <<>>]

\* ---------------------------------------------------------------- artifacts
\* ChartGenerator: an opaque rendering of the cleaned table under a chart name
ChartGenerator(key, t) == <<key[2], t>>

DietRows(t, d) == SelectSeq(t, LAMBDA r : r.diet = d)
CuisineRows(t, c) == SelectSeq(t, LAMBDA r : r.cuisine = c)

\* the mean of the protein column over the whole table, whatever the diet
AverageProteinAllRows(t, d) ==
  IF t = <<>> THEN 0 ELSE SumSeq(Proteins(t)) \div Len(t)

\* groupby('Diet_type').mean() of the protein column
AverageProtein(t, d) ==
  LET rows == DietRows(t, d)
  IN IF rows = <<>> THEN 0 ELSE SumSeq(Proteins(rows)) \div Len(rows)

\* the diet with the largest average protein (the first one on a tie)
HighestProteinDiet(t) ==
  LET cand == SelectSeq(DietOrder, LAMBDA d : d \in DietsOf(t))
      best == SelectSeq(cand, LAMBDA d :
                \A e \in DietsOf(t) : AverageProtein(t, e) <= AverageProtein(t, d))
  IN IF best = <<>> THEN "none" ELSE Head(best)

Insights(t) ==
  << [d \in DietsOf(t) |-> AverageProtein(t, d)], HighestProteinDiet(t) >>

\* RecipeFilter with the cuisine lists selected on the diet column
RecipeFilterDietColumn(key, t) ==
  IF key = KeyAll THEN t
  ELSE SelectSeq(t, LAMBDA r : r.diet = key[3])

\* Step 4: the recipe list stored under a recipes:* key
RecipeFilter(key, t) ==
  IF key = KeyAll THEN t
  ELSE IF key[2] = "diet" THEN DietRows(t, key[3])
  ELSE CuisineRows(t, key[3])

\* the recipes:* keys step 4 writes for a table, in the order it writes them
RecipeKeys(t) ==
  LET ds == SelectSeq(DietOrder, LAMBDA d : d \in DietsOf(t))
      cs == SelectSeq(CuisineOrder, LAMBDA c : c \in CuisinesOf(t))
  IN <<KeyAll>> \o [i \in DOMAIN ds |-> KeyDiet(ds[i])]
              \o [i \in DOMAIN cs |-> KeyCuisine(cs[i])]

Metadata(t) ==
  << [total_recipes |-> Len(t), diet_types |-> DietsOf(t), cuisines |-> CuisinesOf(t)] >>

\* ---------------------------------------------------------------- search
\* the largest page number and the largest page size a request is drawn with
MaxPage == 3
MaxPageSizeAsked == 3

\* the fixed maximum of the effective page size
MaxPageSize == 2

Lower(ch) ==
  CASE ch = "R" -> "r"
    [] ch = "A" -> "a"
    [] ch = "B" -> "b"
    [] OTHER -> ch

LowerSeq(s) == [i \in DOMAIN s |-> Lower(s[i])]

\* k occurs in s as a contiguous run of characters
Contains(s, k) ==
  \E i \in 0..(Len(s) - Len(k)) : SubSeq(s, i + 1, i + Len(k)) = k

\* case-insensitive keyword match on the recipe name; no keyword matches all
KeywordMatch(r, keyword) == Contains(LowerSeq(r.name), LowerSeq(keyword))

\* the residual filter that ignores the cuisine_type of the request
SearchFilterKeywordOnly(list, diet, cuisine, keyword) ==
  SelectSeq(list, LAMBDA r : KeywordMatch(r, keyword))

\* the residual filter applied to the records of the selected snapshot
SearchFilter(list, diet, cuisine, keyword) ==
  SelectSeq(list, LAMBDA r : /\ (diet = "none" \/ r.diet = diet)
                             /\ (cuisine = "none" \/ r.cuisine = cuisine)
                             /\ KeywordMatch(r, keyword))

\* the page size taken as asked
EffectivePageSizeAsAsked(page_size) == page_size

EffectivePageSize(page_size) ==
  IF page_size > MaxPageSize THEN MaxPageSize ELSE page_size

\* the number of pages rounded down
TotalPagesFloor(total_count, size) == total_count \div size

TotalPages(total_count, size) == (total_count + size - 1) \div size

\* the slice that answers a page beyond the last one with the last page
PageSliceLastPage(list, page, size) ==
  LET pages == TotalPages(Len(list), size)
      p == IF page > pages THEN pages ELSE page
      first == (p - 1) * size + 1
      last == IF p * size < Len(list) THEN p * size ELSE Len(list)
  IN IF p < 1 \/ first > Len(list) THEN <<>> ELSE SubSeq(list, first, last)

PageSlice(list, page, size) ==
  LET first == (page - 1) * size + 1
      last == IF page * size < Len(list) THEN page * size ELSE Len(list)
  IN IF first > Len(list) THEN <<>> ELSE SubSeq(list, first, last)

\* data.recipes and data.pagination of a get-recipes response
Paginate(list, page, page_size) ==
  LET size == EffectivePageSize(page_size)
      pages == TotalPages(Len(list), size)
  IN [recipes |-> PageSlice(list, page, size),
      page |-> page,
      page_size |-> size,
      total_count |-> Len(list),
      total_pages |-> pages,
      has_next |-> page < pages,
      has_prev |-> page > 1]

NoData == [recipes |-> <<>>, page |-> 0, page_size |-> 0, total_count |-> 0,
           total_pages |-> 0, has_next |-> FALSE, has_prev |-> FALSE]

\* ---------------------------------------------------------------- state
VARIABLES
  blob,        \* the content of All_Diets.csv in the Record Store
  cache,       \* Redis: key -> entry
  pc,          \* per function instance: the pipeline step it is at, or "idle"
  run,         \* per function instance: the identifier of its run
  table,       \* per function instance: the cleaned table of its run
  left,        \* per function instance: keys the current step has still to write
  nextRunId,   \* the identifier the next run gets
  pending,     \* a follow-up run has been queued by a trigger that arrived mid-run
  committed,   \* the runs that completed all five steps
  lastOutcome, \* how the run that ended last ended
  ingested,    \* per run identifier: the cleaned table the run was computed from
  rd,          \* the reader request in progress or last answered
  ui,          \* the state of the dashboard component
  inflight     \* the dashboard's requests awaiting their response, oldest first

vars == <<blob, cache, pc, run, table, left, nextRunId, pending,
          committed, lastOutcome, ingested, rd, ui, inflight>>

pipeVars == <<blob, cache, pc, run, table, left, nextRunId, pending,
              committed, lastOutcome, ingested>>

dashVars == <<ui, inflight>>

\* The run the cache designates as current: the one whose metadata is stored.
Pointer == cache[KeyMetadata].run

Active(w) == pc[w] # "idle"
Running == \E w \in Workers : Active(w)

Entry(r, d) == [run |-> r, data |-> d]

IdleReader == [pc |-> "idle", op |-> "none", chart |-> "none", diet |-> "none",
               cuisine |-> "none", keyword |-> <<>>, page |-> 1,
               page_size |-> MaxPageSize, toRead |-> {},
               got |-> [k \in Keys |-> Absent], failed |-> FALSE,
               status |-> "none", data |-> NoData]

\* the recipes shown and the pagination held before any response
NoRecipes == [diet |-> "all", cuisine |-> "all", keyword |-> "", page |-> 0, n |-> 0]
NoPagination == [present |-> FALSE, page |-> 0, total_pages |-> 0]

\* useState initial values of the dashboard component
InitialUi == [mounted |-> FALSE, insights |-> FALSE, recipes |-> NoRecipes,
              pagination |-> NoPagination, loading |-> FALSE, error |-> FALSE,
              selectedDiet |-> "all", selectedCuisine |-> "all", searchQuery |-> "",
              currentPage |-> 1]

Init ==
  /\ blob = <<>>
  /\ cache = [k \in Keys |-> Absent]
  /\ pc = [w \in Workers |-> "idle"]
  /\ run = [w \in Workers |-> 0]
  /\ table = [w \in Workers |-> <<>>]
  /\ left = [w \in Workers |-> <<>>]
  /\ nextRunId = 1
  /\ pending = FALSE
  /\ committed = {}
  /\ lastOutcome = "none"
  /\ ingested = [r \in 1..MaxRuns |-> <<>>]
  /\ rd = IdleReader
  /\ ui = InitialUi
  /\ inflight = <<>>

\* ---------------------------------------------------------------- trigger
\* RunInProgress with the guard left out: the trigger never sees a run
NoRunGuard == FALSE

\* The run-in-progress guard of the trigger.
RunInProgress == \E w \in Workers : Active(w)

\* NewRunId derived from the current run instead of a counter of its own
RunIdAfterCurrent == Pointer + 1

\* The identifier a starting run is given.
NewRunId == nextRunId

\* the function instance that takes the next run: the first idle one
Takes(w) == pc[w] = "idle" /\ \A v \in Workers : v < w => Active(v)

StartRun(w) ==
  /\ nextRunId <= MaxRuns
  /\ Takes(w)
  /\ pc' = [pc EXCEPT ![w] = "clean"]
  /\ run' = [run EXCEPT ![w] = NewRunId]
  /\ nextRunId' = NewRunId + 1
  /\ UNCHANGED <<cache, table, left, committed, lastOutcome, ingested, rd, dashVars>>

\* All_Diets.csv is uploaded while no run is in progress: the trigger starts a run.
UploadStart(ds, w) ==
  /\ ~RunInProgress
  /\ blob' = ds
  /\ StartRun(w)
  /\ UNCHANGED pending

\* All_Diets.csv is uploaded mid-run and the trigger queues one follow-up run.
UploadQueue(ds) ==
  /\ RunInProgress
  /\ blob' = ds
  /\ pending' = TRUE
  /\ UNCHANGED <<cache, pc, run, table, left, nextRunId, committed, lastOutcome,
                 ingested, rd, dashVars>>

\* All_Diets.csv is uploaded mid-run and the trigger is dropped.
UploadDrop(ds) ==
  /\ RunInProgress
  /\ blob' = ds
  /\ UNCHANGED <<cache, pc, run, table, left, nextRunId, pending, committed,
                 lastOutcome, ingested, rd, dashVars>>

\* The queued follow-up run starts once the run in progress has ended.
StartFollowUp(w) ==
  /\ pending
  /\ ~RunInProgress
  /\ pending' = FALSE
  /\ StartRun(w)
  /\ UNCHANGED blob

\* a store that appends to the value the key already holds
StoreAppend(w, key, data) ==
  cache' = [cache EXCEPT ![key] = Entry(run[w], cache[key].data \o data)]

\* ---------------------------------------------------------------- pipeline
Store(w, key, data) == cache' = [cache EXCEPT ![key] = Entry(run[w], data)]

\* Step 1: load the CSV from the blob binding, clean it, store cleaned_data.
Step1_LoadClean(w) ==
  /\ pc[w] = "clean"
  /\ LET t == load_and_clean_data(blob)
     IN /\ table' = [table EXCEPT ![w] = t]
        /\ ingested' = [ingested EXCEPT ![run[w]] = t]
        /\ Store(w, KeyCleaned, t)
  /\ pc' = [pc EXCEPT ![w] = "charts"]
  /\ left' = [left EXCEPT ![w] = ChartKeys]
  /\ UNCHANGED <<blob, run, nextRunId, pending, committed, lastOutcome, rd, dashVars>>

\* Step 2: store the next chart.
Step2_Charts(w) ==
  /\ pc[w] = "charts"
  /\ Store(w, Head(left[w]), ChartGenerator(Head(left[w]), table[w]))
  /\ left' = [left EXCEPT ![w] = Tail(left[w])]
  /\ pc' = [pc EXCEPT ![w] = IF Tail(left[w]) = <<>> THEN "insights" ELSE "charts"]
  /\ UNCHANGED <<blob, run, table, nextRunId, pending, committed,
                 lastOutcome, ingested, rd, dashVars>>

\* Step 3: compute the insights and store insights:summary.
Step3_Insights(w) ==
  /\ pc[w] = "insights"
  /\ Store(w, KeyInsights, Insights(table[w]))
  /\ pc' = [pc EXCEPT ![w] = "recipes"]
  /\ left' = [left EXCEPT ![w] = RecipeKeys(table[w])]
  /\ UNCHANGED <<blob, run, table, nextRunId, pending, committed,
                 lastOutcome, ingested, rd, dashVars>>

\* Step 4: store the next pre-computed recipe list.
Step4_RecipeFilters(w) ==
  /\ pc[w] = "recipes"
  /\ Store(w, Head(left[w]), RecipeFilter(Head(left[w]), table[w]))
  /\ left' = [left EXCEPT ![w] = Tail(left[w])]
  /\ pc' = [pc EXCEPT ![w] = IF Tail(left[w]) = <<>> THEN "metadata" ELSE "recipes"]
  /\ UNCHANGED <<blob, run, table, nextRunId, pending, committed,
                 lastOutcome, ingested, rd, dashVars>>

\* Step 5: store metadata; the run is complete.
Step5_Metadata(w) ==
  /\ pc[w] = "metadata"
  /\ Store(w, KeyMetadata, Metadata(table[w]))
  /\ pc' = [pc EXCEPT ![w] = "idle"]
  /\ table' = [table EXCEPT ![w] = <<>>]
  /\ committed' = committed \cup {run[w]}
  /\ lastOutcome' = "committed"
  /\ UNCHANGED <<blob, run, left, nextRunId, pending, ingested, rd, dashVars>>

\* A step throws or the run exceeds its deadline: the run ends where it is.
Fail(w) ==
  /\ Active(w)
  /\ pc' = [pc EXCEPT ![w] = "idle"]
  /\ table' = [table EXCEPT ![w] = <<>>]
  /\ left' = [left EXCEPT ![w] = <<>>]
  /\ lastOutcome' = "failed"
  /\ UNCHANGED <<blob, cache, run, nextRunId, pending, committed, ingested, rd, dashVars>>

\* ---------------------------------------------------------------- HTTP API
Actions == {"health", "get-charts", "get-insights", "get-recipes"}

\* the logical names of the charts
ChartNames == {ChartKeys[i][2] : i \in DOMAIN ChartKeys}

\* the key of the list a get-recipes request is answered from
SnapshotKey(diet, cuisine) ==
  IF diet # "none" THEN KeyDiet(diet)
  ELSE IF cuisine # "none" THEN KeyCuisine(cuisine)
  ELSE KeyAll

\* the Redis keys an endpoint reads for a request
KeysRead(op, diet, cuisine) ==
  CASE op = "health" -> {KeyMetadata}
    [] op = "get-charts" -> {KeyBar, KeyHeatmap, KeyScatter, KeyMetadata}
    [] op = "get-insights" -> {KeyInsights, KeyMetadata}
    [] op = "get-recipes" -> {SnapshotKey(diet, cuisine), KeyMetadata}
    [] OTHER -> {}

\* the keys a read of one chart by its name reads
ChartKeysRead(chart) ==
  IF chart \in ChartNames THEN {<<"charts", chart>>, KeyMetadata} ELSE {KeyMetadata}

\* a filter value that does not parse, and the values a filter can be sent with
BadValue == ""
DietValues == Diets \cup {"none", BadValue}
CuisineValues == Cuisines \cup {"none", BadValue}

UnknownChartName(op, chart) == op = "get-chart" /\ chart \notin ChartNames

MalformedQuery(op, diet, cuisine, page, page_size) ==
  /\ op = "get-recipes"
  /\ \/ diet = BadValue
     \/ cuisine = BadValue
     \/ page < 1
     \/ page_size < 1

\* the chart name is looked at only after the Redis reads
ChartNameCheckedLast(op, chart) == FALSE

\* the chart name is checked when the request arrives
ChartNameCheckedFirst(op, chart) == UnknownChartName(op, chart)

\* the parameters are looked at only after the Redis reads
ValidatedLast(op, diet, cuisine, page, page_size) == FALSE

\* the parameters are validated when the request arrives
ValidatedFirst(op, diet, cuisine, page, page_size) ==
  MalformedQuery(op, diet, cuisine, page, page_size)

\* A request arrives: it is rejected at once, or starts reading its keys.
Request(op, chart, diet, cuisine, keyword, page, page_size) ==
  /\ rd.pc # "reading"
  /\ op # "get-chart" => chart = "none"
  /\ op # "get-recipes" => /\ diet = "none" /\ cuisine = "none" /\ keyword = <<>>
                           /\ page = 1 /\ page_size = MaxPageSize
  /\ LET req == [IdleReader EXCEPT
                   !.op = op, !.chart = chart, !.diet = diet, !.cuisine = cuisine,
                   !.keyword = keyword, !.page = page, !.page_size = page_size,
                   !.toRead = IF op = "get-chart" THEN ChartKeysRead(chart)
                              ELSE KeysRead(op, diet, cuisine)]
     IN rd' = IF ChartNameCheckedFirst(op, chart)
                THEN [req EXCEPT !.pc = "done", !.status = "UnknownChart"]
              ELSE IF ValidatedFirst(op, diet, cuisine, page, page_size)
                THEN [req EXCEPT !.pc = "done", !.status = "InvalidQuery"]
              ELSE [req EXCEPT !.pc = "reading"]
  /\ UNCHANGED <<pipeVars, dashVars>>

\* GET /api/{action} arrives, for get-recipes with the first page asked.
Begin(op, diet, cuisine) == Request(op, "none", diet, cuisine, <<>>, 1, MaxPageSize)

\* a read that takes the key out of Redis
ReadKeyAndDelete(k) ==
  /\ rd.pc = "reading"
  /\ k \in rd.toRead
  /\ rd' = [rd EXCEPT !.toRead = rd.toRead \ {k}, !.got[k] = cache[k]]
  /\ cache' = [cache EXCEPT ![k] = Absent]
  /\ UNCHANGED <<blob, pc, run, table, left, nextRunId, pending, committed,
                 lastOutcome, ingested, dashVars>>

\* The request reads one of its keys from Redis.
ReadKey(k) ==
  /\ rd.pc = "reading"
  /\ k \in rd.toRead
  /\ rd' = [rd EXCEPT !.toRead = rd.toRead \ {k}, !.got[k] = cache[k]]
  /\ UNCHANGED <<pipeVars, dashVars>>

\* the keys of a request
KeysOf(r) ==
  IF r.op = "get-chart" THEN ChartKeysRead(r.chart)
  ELSE KeysRead(r.op, r.diet, r.cuisine)

RequestKeys == KeysOf(rd)

WasRead(k) == k \in RequestKeys \ rd.toRead

\* the metadata is not looked at
PointerIgnored(meta) == FALSE

\* no run has stored its metadata
PointerMissing(meta) == meta.run = 0

\* the status request r is answered with from the entries g it has read
StatusOf(r, g) ==
  IF r.op = "health" THEN "healthy"
  ELSE IF PointerMissing(g[KeyMetadata]) THEN "NotYetComputed"
  ELSE IF UnknownChartName(r.op, r.chart) THEN "UnknownChart"
  ELSE IF MalformedQuery(r.op, r.diet, r.cuisine, r.page, r.page_size)
    THEN "InvalidQuery"
  ELSE IF r.op = "get-recipes"
    THEN IF g[KeyAll].run = 0 /\ SnapshotKey(r.diet, r.cuisine) = KeyAll
         THEN "NotYetComputed" ELSE "success"
  ELSE IF \E k \in KeysOf(r) : g[k].run = 0 THEN "NotYetComputed"
  ELSE "success"

\* data.recipes and data.pagination request r is answered with
DataOf(r, g) ==
  IF r.op = "get-recipes" /\ StatusOf(r, g) = "success"
  THEN Paginate(SearchFilter(g[SnapshotKey(r.diet, r.cuisine)].data,
                             r.diet, r.cuisine, r.keyword),
                r.page, r.page_size)
  ELSE NoData

\* The request has read all its keys and answers.
Respond ==
  /\ rd.pc = "reading"
  /\ rd.toRead = {}
  /\ rd' = [rd EXCEPT !.pc = "done", !.status = StatusOf(rd, rd.got),
                      !.data = DataOf(rd, rd.got)]
  /\ UNCHANGED <<pipeVars, dashVars>>

\* a health check that reports healthy although Redis did not answer
FailureStatusHealthy(op) == IF op = "health" THEN "healthy" ELSE "CacheUnavailable"

\* the status of a request whose Redis call failed
FailureStatus(op) == IF op = "health" THEN "degraded" ELSE "CacheUnavailable"

\* a failed Redis call taken for a key that is not set
ReadFailsAsMiss(k) ==
  /\ rd.pc = "reading"
  /\ k \in rd.toRead
  /\ rd' = [rd EXCEPT !.toRead = rd.toRead \ {k}, !.got[k] = Absent, !.failed = TRUE]
  /\ UNCHANGED <<pipeVars, dashVars>>

\* A Redis call of the request times out or fails: the request is answered.
ReadFails(k) ==
  /\ rd.pc = "reading"
  /\ k \in rd.toRead
  /\ rd' = [rd EXCEPT !.pc = "done", !.failed = TRUE, !.got = IdleReader.got,
                      !.status = FailureStatus(rd.op)]
  /\ UNCHANGED <<pipeVars, dashVars>>

\* the HTTP status code of a response
HttpCode(status) ==
  CASE status \in {"success", "healthy"} -> 200
    [] status = "InvalidQuery" -> 400
    [] status = "UnknownChart" -> 404
    [] status \in {"degraded", "CacheUnavailable"} -> 503
    [] OTHER -> 500

\* the top-level fields of a response
SuccessFields == {"status", "data", "api_performance", "blob_trigger_performance",
                  "message"}
ErrorFields == {"status", "message", "timestamp"}
HealthFields == {"status", "service", "version", "timestamp", "checks",
                 "execution_time"}

ResponseFields(op, status) ==
  IF op = "health" THEN HealthFields
  ELSE IF status = "success" THEN SuccessFields
  ELSE ErrorFields

\* checks.redis_cache and checks.cache_data of a health response
HealthChecks(r) ==
  [redis_cache |-> IF r.failed THEN "disconnected" ELSE "connected",
   cache_data |-> IF r.failed \/ r.got[KeyMetadata].run = 0 THEN <<>>
                  ELSE r.got[KeyMetadata].data]

\* ---------------------------------------------------------------- dashboard
\* the most requests the dashboard has awaiting a response at once
MaxInFlight == 2

itemsPerPage == 10

\* the values the filters and the search box are set to
UiDiets == {"all", "A"}
UiCuisines == {"all", "x"}
UiQueries == {"", "r"}

\* the number of recipes the backend has for a filter combination
CatalogueCount(diet, cuisine, keyword) ==
  LET filters == (IF diet = "all" THEN 0 ELSE 1) + (IF cuisine = "all" THEN 0 ELSE 1)
                   + (IF keyword = "" THEN 0 ELSE 1)
  IN IF filters = 3 THEN 0 ELSE 25 - 10 * filters

\* the last page of the unfiltered recipes
MaxUiPage == TotalPages(CatalogueCount("all", "all", ""), itemsPerPage)

\* data.recipes and data.pagination of the response to request q
RecipesAnswer(q) ==
  LET count == CatalogueCount(q.diet, q.cuisine, q.keyword)
      remaining == count - (q.page - 1) * itemsPerPage
  IN [recipes |-> [diet |-> q.diet, cuisine |-> q.cuisine, keyword |-> q.keyword,
                   page |-> q.page,
                   n |-> IF remaining < 0 THEN 0
                         ELSE IF remaining > itemsPerPage THEN itemsPerPage
                         ELSE remaining],
      pagination |-> [present |-> TRUE, page |-> q.page,
                      total_pages |-> TotalPages(count, itemsPerPage)]]

\* const totalPages = pagination?.total_pages || Math.ceil(recipes.length / itemsPerPage)
totalPages(u) ==
  IF u.pagination.present /\ u.pagination.total_pages # 0
  THEN u.pagination.total_pages
  ELSE TotalPages(u.recipes.n, itemsPerPage)

\* the pagination controls are rendered
PaginationShown(u) == u.recipes.n > 0 /\ totalPages(u) > 1

InsightsRequest ==
  [kind |-> "insights", reset |-> FALSE, diet |-> "all", cuisine |-> "all",
   keyword |-> "", page |-> 0, stale |-> FALSE]

\* the fetchRecipes call of loadRecipes(resetPage) in the render with state u
RecipesRequest(u, resetPage) ==
  [kind |-> "recipes", reset |-> resetPage, diet |-> u.selectedDiet,
   cuisine |-> u.selectedCuisine, keyword |-> u.searchQuery,
   page |-> IF resetPage THEN 1 ELSE u.currentPage, stale |-> FALSE]

\* setLoading(true); setError(null)
Started(u) == [u EXCEPT !.loading = TRUE, !.error = FALSE]

\* The dashboard goes from state u on, calling loadRecipes(resetPage) if issue.
Render(u, issue, resetPage) ==
  /\ issue => Len(inflight) < MaxInFlight
  /\ ui' = IF issue THEN Started(u) ELSE u
  /\ inflight' = IF issue THEN Append(inflight, RecipesRequest(u, resetPage))
                 ELSE inflight
  /\ UNCHANGED <<pipeVars, rd>>

\* useEffect on [selectedDiet, selectedCuisine, searchQuery]
FiltersEffect(u) == Render(u, u.insights, TRUE)

\* useEffect on [currentPage]
PageEffect(u) == Render(u, u.insights /\ u.currentPage > 1, FALSE)

\* The component mounts: loadInsights() and loadRecipes().
Mount ==
  /\ ~ui.mounted
  /\ ui' = Started([ui EXCEPT !.mounted = TRUE])
  /\ inflight' = <<InsightsRequest, RecipesRequest(ui, FALSE)>>
  /\ UNCHANGED <<pipeVars, rd>>

\* The user picks a diet type; the options other than all come from insights.
ChangeDiet(v) ==
  /\ ui.mounted /\ v # ui.selectedDiet
  /\ v # "all" => ui.insights
  /\ FiltersEffect([ui EXCEPT !.selectedDiet = v])

\* The user picks a cuisine.
ChangeCuisine(v) ==
  /\ ui.mounted /\ v # ui.selectedCuisine
  /\ FiltersEffect([ui EXCEPT !.selectedCuisine = v])

\* The user edits the search box.
ChangeSearch(v) ==
  /\ ui.mounted /\ v # ui.searchQuery
  /\ FiltersEffect([ui EXCEPT !.searchQuery = v])

goToPrevious ==
  /\ ui.mounted /\ PaginationShown(ui)
  /\ ui.currentPage > 1
  /\ PageEffect([ui EXCEPT !.currentPage = ui.currentPage - 1])

goToNext ==
  /\ ui.mounted /\ PaginationShown(ui)
  /\ ui.currentPage < totalPages(ui)
  /\ PageEffect([ui EXCEPT !.currentPage = ui.currentPage + 1])

\* The user clicks one of the page numbers rendered.
goToPage(page) ==
  /\ ui.mounted /\ PaginationShown(ui)
  /\ page \in 1..totalPages(ui)
  /\ page # ui.currentPage
  /\ \/ page = 1
     \/ page = totalPages(ui)
     \/ page - ui.currentPage \in {0 - 1, 1}
  /\ PageEffect([ui EXCEPT !.currentPage = page])

\* The user clicks Search Recipes.
SearchRecipes ==
  /\ ui.mounted /\ ~ui.loading
  /\ Render(ui, TRUE, TRUE)

\* The user clicks Refresh Recipes: setCurrentPage(1), then loadRecipes(true).
RefreshRecipes ==
  /\ ui.mounted /\ ~ui.loading
  /\ Render([ui EXCEPT !.currentPage = 1], TRUE, TRUE)

\* The user clicks Refresh Insights.
RefreshInsights ==
  /\ ui.mounted /\ ~ui.loading
  /\ Len(inflight) < MaxInFlight
  /\ ui' = Started(ui)
  /\ inflight' = Append(inflight, InsightsRequest)
  /\ UNCHANGED <<pipeVars, rd>>

\* inflight without its i-th request; the older recipe requests are marked as
\* overtaken when mark holds
Settle(i, mark) ==
  LET marked == [j \in DOMAIN inflight |->
                   IF mark /\ j < i /\ inflight[j].kind = "recipes"
                   THEN [inflight[j] EXCEPT !.stale = TRUE] ELSE inflight[j]]
  IN SubSeq(marked, 1, i - 1) \o SubSeq(marked, i + 1, Len(marked))

\* loadRecipes after the await: setRecipes, setPagination, setCurrentPage(1)
RecipesShown(u, q) ==
  [u EXCEPT !.recipes = RecipesAnswer(q).recipes,
            !.pagination = RecipesAnswer(q).pagination,
            !.currentPage = IF q.reset THEN 1 ELSE @]

\* finally { setLoading(false) }
Finished(u) == [u EXCEPT !.loading = FALSE]

\* The response to a fetchRecipes call arrives.
RecipesResponse(i) ==
  /\ i \in DOMAIN inflight /\ inflight[i].kind = "recipes"
  /\ inflight' = Settle(i, TRUE)
  /\ ui' = Finished(RecipesShown(ui, inflight[i]))
  /\ UNCHANGED <<pipeVars, rd>>

\* A fetchRecipes call fails.
RecipesFailure(i) ==
  /\ i \in DOMAIN inflight /\ inflight[i].kind = "recipes"
  /\ inflight' = Settle(i, FALSE)
  /\ ui' = Finished([ui EXCEPT !.error = TRUE])
  /\ UNCHANGED <<pipeVars, rd>>

\* The response to fetchInsights arrives.
InsightsResponse(i) ==
  /\ i \in DOMAIN inflight /\ inflight[i].kind = "insights"
  /\ inflight' = Settle(i, FALSE)
  /\ ui' = Finished([ui EXCEPT !.insights = TRUE])
  /\ UNCHANGED <<pipeVars, rd>>

\* fetchInsights fails.
InsightsFailure(i) ==
  /\ i \in DOMAIN inflight /\ inflight[i].kind = "insights"
  /\ inflight' = Settle(i, FALSE)
  /\ ui' = Finished([ui EXCEPT !.error = TRUE])
  /\ UNCHANGED <<pipeVars, rd>>

DashboardNext ==
  \/ Mount
  \/ \E v \in UiDiets : ChangeDiet(v)
  \/ \E v \in UiCuisines : ChangeCuisine(v)
  \/ \E v \in UiQueries : ChangeSearch(v)
  \/ goToPrevious
  \/ goToNext
  \/ \E page \in 1..MaxUiPage : goToPage(page)
  \/ SearchRecipes
  \/ RefreshRecipes
  \/ RefreshInsights
  \/ \E i \in 1..MaxInFlight : RecipesResponse(i)
  \/ \E i \in 1..MaxInFlight : RecipesFailure(i)
  \/ \E i \in 1..MaxInFlight : InsightsResponse(i)
  \/ \E i \in 1..MaxInFlight : InsightsFailure(i)

\* the dashboard against a backend whose data does not change
SpecDashboard == Init /\ [][DashboardNext]_vars

\* ---------------------------------------------------------------- system
PipelineNext ==
  \/ \E ds \in Datasets, w \in Workers : UploadStart(ds, w)
  \/ \E ds \in Datasets : UploadQueue(ds)
  \/ \E ds \in Datasets : UploadDrop(ds)
  \/ \E w \in Workers : StartFollowUp(w)
  \/ \E w \in Workers : Step1_LoadClean(w)
  \/ \E w \in Workers : Step2_Charts(w)
  \/ \E w \in Workers : Step3_Insights(w)
  \/ \E w \in Workers : Step4_RecipeFilters(w)
  \/ \E w \in Workers : Step5_Metadata(w)
  \/ \E w \in Workers : Fail(w)

ReaderNext ==
  \/ \E op \in Actions, d \in Diets \cup {"none"}, c \in Cuisines \cup {"none"} :
       Begin(op, d, c)
  \/ \E k \in Keys : ReadKey(k)
  \/ Respond

Next == PipelineNext \/ ReaderNext

\* one request with any parameters, answered while files are uploaded and
\* processed one after the other
Keywords == {<<>>, <<"R">>}
OtherChart == "pie_chart"

QueryNext ==
  \/ \E ds \in Datasets, w \in Workers : UploadStart(ds, w)
  \/ \E w \in Workers : Step1_LoadClean(w)
  \/ \E w \in Workers : Step2_Charts(w)
  \/ \E w \in Workers : Step3_Insights(w)
  \/ \E w \in Workers : Step4_RecipeFilters(w)
  \/ \E w \in Workers : Step5_Metadata(w)
  \/ /\ rd.pc = "idle"
     /\ \E op \in Actions \cup {"get-chart"}, chart \in ChartNames \cup {"none", OtherChart},
           diet \in DietValues, cuisine \in CuisineValues, keyword \in Keywords,
           page \in 0..MaxPage, page_size \in 0..MaxPageSizeAsked :
          Request(op, chart, diet, cuisine, keyword, page, page_size)
  \/ \E k \in Keys : ReadKey(k)
  \/ \E k \in Keys : ReadFails(k)
  \/ Respond

\* the pipeline and the API together
Spec == Init /\ [][Next]_vars

\* the API with every request parameter
SpecQuery == Init /\ [][QueryNext]_vars

\* the pipeline and its triggers alone (no request touches what they read or write)
SpecPipeline == Init /\ [][PipelineNext]_vars

\* ================================================================ claims

\* C1: a response never combines an artifact stored by one successful run with
\* an artifact stored by another successful run.
C1_NoMixedRuns ==
  rd.pc = "done" =>
    \A k1 \in RequestKeys, k2 \in RequestKeys :
      (rd.got[k1].run \in committed /\ rd.got[k2].run \in committed)
        => rd.got[k1].run = rd.got[k2].run

\* C2: the write that makes a run current is the last cache write of the run,
\* and when it happens no request has yet obtained an artifact of that run.
C2_PointerWriteLast ==
  [][ /\ \A k \in ArtifactKeys :
           cache'[k] # cache[k] => cache'[k].run \notin committed
      /\ \A r \in committed' \ committed :
           \A k \in Keys : WasRead(k) => rd.got[k].run # r ]_vars

\* what a get-insights request is answered with from the cache as it stands
getSummary == [insights |-> cache[KeyInsights], metadata |-> cache[KeyMetadata]]

\* C3: after a run has failed, the current run is still a run that completed
\* (or none), and getSummary returns exactly the insights of that run.
C3_FailureKeepsPrevious ==
  (lastOutcome = "failed" /\ ~Running) =>
    /\ Pointer \in committed \cup {0}
    /\ getSummary.insights.run = Pointer

C5_PinnedToCapturedRun ==
  (rd.pc = "done" /\ rd.got[KeyMetadata].run # 0) =>
    \A k \in RequestKeys : rd.got[k].run = rd.got[KeyMetadata].run

\* C6: a key that one run has written is never written by a different run;
\* only the key that says which run is current is shared between runs.
C6_NoKeySharedBetweenRuns ==
  [][ \A k \in ArtifactKeys :
        cache[k].run # 0 => cache'[k].run = cache[k].run ]_vars

\* C7: an artifact of the run that is current is not modified or deleted while
\* that run is current.
C7_CurrentRunImmutable ==
  [][ \A k \in ArtifactKeys :
        (Pointer # 0 /\ Pointer' = Pointer /\ cache[k].run = Pointer)
          => cache'[k] = cache[k] ]_vars

\* the artifact keys of the run whose metadata is stored
CurrentRunKeys ==
  LET m == cache[KeyMetadata].data[1]
  IN {KeyBar, KeyHeatmap, KeyScatter, KeyInsights, KeyAll}
       \cup {KeyDiet(d) : d \in m.diet_types}
       \cup {KeyCuisine(c) : c \in m.cuisines}

\* C8: once a first run has completed, the current run is always a completed
\* run all of whose artifacts are in the cache.
C8_CurrentRunComplete ==
  committed # {} =>
    /\ Pointer \in committed
    /\ \A k \in CurrentRunKeys : cache[k].run = Pointer

\* the largest run identifier in use so far
MaxIdSeen ==
  LET ids == {run[w] : w \in Workers} \cup {cache[k].run : k \in Keys}
  IN CHOOSE m \in ids : \A i \in ids : i <= m

Occurrences(s, x) == Cardinality({i \in DOMAIN s : s[i] = x})

C11_SearchIdempotent ==
  ( /\ rd.pc = "done" /\ rd.op = "get-recipes" /\ rd.status = "success"
    /\ rd.got[SnapshotKey(rd.diet, rd.cuisine)].run # 0
    /\ rd.got[KeyMetadata].run = Pointer
    /\ StatusOf(rd, cache) = "success" )
  => /\ DataOf(rd, cache).recipes = rd.data.recipes
     /\ DataOf(rd, cache).total_count = rd.data.total_count

ArtifactReads == {"get-charts", "get-insights", "get-recipes", "get-chart"}

\* C13: a well-formed read of an artifact whose Redis calls all succeeded is
\* answered NotYetComputed while no run has ever completed, whenever the
\* metadata it read is missing, and whenever a chart, the insights or the list
\* of all recipes it read is missing.
C13_ColdReadsNotYetComputed ==
  (rd.pc = "done" /\ rd.op \in ArtifactReads /\ ~rd.failed
     /\ rd.status \notin {"UnknownChart", "InvalidQuery"})
    => /\ committed = {} => rd.status = "NotYetComputed"
       /\ rd.got[KeyMetadata].run = 0 => rd.status = "NotYetComputed"
       /\ (\E k \in RequestKeys \ (DietKeys \cup CuisineKeys) : rd.got[k].run = 0)
            => rd.status = "NotYetComputed"
       /\ rd.status \in {"NotYetComputed", "success"}

\* before any run has completed, a request that read the insights a run in
\* progress had already stored has been answered NotYetComputed
C13_Witness ==
  /\ committed = {}
  /\ rd.pc = "done" /\ rd.op = "get-insights"
  /\ rd.got[KeyInsights].run # 0
  /\ rd.status = "NotYetComputed"

\* C14: a get-recipes response for a page beyond the last page has no recipes
\* and has_next false, and has_prev true when the page is the one right after
\* a last page that exists; it is not an error.
C14_PageBeyondLast ==
  (rd.pc = "done" /\ rd.op = "get-recipes" /\ rd.status = "success"
     /\ rd.page > rd.data.total_pages)
    => /\ rd.data.recipes = <<>>
       /\ ~rd.data.has_next
       /\ (rd.page = rd.data.total_pages + 1 /\ rd.data.total_pages > 0)
            => rd.data.has_prev

\* the page right after the last page of a result that has recipes was asked
C14_Witness ==
  /\ rd.pc = "done" /\ rd.op = "get-recipes" /\ rd.status = "success"
  /\ rd.data.total_pages > 0
  /\ rd.page = rd.data.total_pages + 1

\* C15: no step of a request changes what Redis holds, the metadata included.
C15_ReadsDoNotWrite == [][rd' # rd => cache' = cache]_vars

\* a request has been answered from the lists and the metadata of a run
C15_Witness ==
  /\ rd.pc = "done" /\ rd.status = "success" /\ rd.op = "get-recipes"
  /\ Pointer # 0

Matching(t, diet, cuisine, keyword) ==
  LET ofDiet == IF diet = "none" THEN t ELSE DietRows(t, diet)
      ofBoth == IF cuisine = "none" THEN ofDiet ELSE CuisineRows(ofDiet, cuisine)
  IN SelectSeq(ofBoth, LAMBDA r : KeywordMatch(r, keyword))

\* the recipes of pages p, p+1, ... of the answer to request r
RECURSIVE AllPages(_, _, _)
AllPages(r, g, p) ==
  IF p > DataOf(r, g).total_pages THEN <<>>
  ELSE DataOf([r EXCEPT !.page = p], g).recipes \o AllPages(r, g, p + 1)

C18_NoSnapshotEmptyResult ==
  ( /\ rd.pc = "done" /\ rd.op = "get-recipes" /\ rd.status = "success"
    /\ ~Running
    /\ \A k \in RequestKeys : rd.got[k] = cache[k]
    /\ \/ rd.diet \in Diets \ DietsOf(ingested[Pointer])
       \/ rd.cuisine \in Cuisines \ CuisinesOf(ingested[Pointer]) )
  => rd.data.recipes = <<>> /\ rd.data.total_count = 0

Min(a, b) == IF a < b THEN a ELSE b
Max(a, b) == IF a > b THEN a ELSE b

\* C19: in every get-recipes response total_pages is total_count / page_size
\* rounded up, the page holds min(page_size, records left from
\* (page-1)*page_size) recipes, has_next is page < total_pages and has_prev is
\* page > 1; diet type A of the four-record table with page 1 and page_size 1
\* gives 1 recipe, total_count 2, total_pages 2 and has_next.
C19_PaginationConsistent ==
  (rd.pc = "done" /\ rd.op = "get-recipes" /\ rd.status = "success")
    => LET d == rd.data
       IN /\ d.page_size >= 1
          /\ d.total_pages * d.page_size >= d.total_count
          /\ (d.total_pages - 1) * d.page_size < d.total_count
          /\ Len(d.recipes)
               = Min(d.page_size, Max(0, d.total_count - (d.page - 1) * d.page_size))
          /\ d.has_next <=> d.page < d.total_pages
          /\ d.has_prev <=> d.page > 1
          /\ ( /\ rd.got[KeyDiet("A")] = Entry(rd.got[KeyDiet("A")].run,
                                               DietRows(DatasetAB, "A"))
               /\ rd.diet = "A" /\ rd.cuisine = "none" /\ rd.keyword = <<>>
               /\ rd.page = 1 /\ rd.page_size = 1 )
             => /\ Len(d.recipes) = 1 /\ d.total_count = 2
                /\ d.total_pages = 2 /\ d.has_next

\* page 1 with page_size 1 of diet type A of the four-record table was answered
C19_Witness ==
  /\ rd.pc = "done" /\ rd.op = "get-recipes" /\ rd.status = "success"
  /\ rd.diet = "A" /\ rd.cuisine = "none" /\ rd.keyword = <<>>
  /\ rd.page = 1 /\ rd.page_size = 1
  /\ rd.got[KeyDiet("A")].data = DietRows(DatasetAB, "A")
  /\ rd.data.total_pages = 2

\* C20: whatever page_size is asked, a get-recipes response holds at most
\* MaxPageSize recipes and reports a page_size of at most MaxPageSize.
C20_PageSizeClamped ==
  (rd.pc = "done" /\ rd.op = "get-recipes" /\ rd.status = "success")
    => /\ Len(rd.data.recipes) <= MaxPageSize
       /\ rd.data.page_size <= MaxPageSize
       /\ rd.page_size <= MaxPageSize => rd.data.page_size = rd.page_size

\* a page size above the maximum was asked of a result with more records than
\* the maximum, and the page came back with the maximum
C20_Witness ==
  /\ rd.pc = "done" /\ rd.op = "get-recipes" /\ rd.status = "success"
  /\ rd.page_size > MaxPageSize
  /\ rd.data.total_count > MaxPageSize
  /\ Len(rd.data.recipes) = MaxPageSize

RECURSIVE GroupTotal(_, _)
GroupTotal(t, d) ==
  IF t = <<>> THEN 0
  ELSE (IF Head(t).diet = d THEN Head(t).protein ELSE 0) + GroupTotal(Tail(t), d)

GroupCount(t, d) == Cardinality({i \in DOMAIN t : t[i].diet = d})

Envelope == {"status", "blob_trigger_performance", "api_performance", "message"}

\* C22: every response of get-charts, get-insights, get-recipes and the read of
\* one chart, success or error, has the fields status, blob_trigger_performance
\* (the last run's timing), api_performance (the request's timing) and message.
C22_EnvelopeOnEveryResponse ==
  (rd.pc = "done" /\ rd.op # "health")
    => Envelope \subseteq ResponseFields(rd.op, rd.status)

\* C24: a request of which a Redis call failed is answered CacheUnavailable
\* (degraded for health), never NotYetComputed; a request whose Redis calls all
\* answered, with the key set or not, is never answered CacheUnavailable.
C24_CacheUnavailableOnlyOnFailure ==
  rd.pc = "done" =>
    /\ rd.failed => rd.status = IF rd.op = "health" THEN "degraded"
                              ELSE "CacheUnavailable"
    /\ rd.failed => rd.status \notin {"NotYetComputed", "success", "healthy"}
    /\ rd.status \in {"CacheUnavailable", "degraded"} => rd.failed

\* a get-insights request was answered CacheUnavailable after a failed call,
\* while nothing is stored under metadata
C24_Witness ==
  /\ rd.pc = "done" /\ rd.op = "get-insights" /\ rd.failed
  /\ rd.status = "CacheUnavailable"
  /\ Pointer = 0

\* C25: a health response says healthy with code 200 and the metadata read,
\* none while no run has completed and else that of a completed run, when Redis
\* answered; it says degraded with code 503, and never healthy, when Redis
\* failed.
C25_HealthReportsReachability ==
  (rd.pc = "done" /\ rd.op = "health") =>
    /\ rd.failed =>
         /\ rd.status = "degraded" /\ HttpCode(rd.status) = 503
         /\ HealthChecks(rd).redis_cache = "disconnected"
    /\ ~rd.failed =>
         /\ rd.status = "healthy" /\ HttpCode(rd.status) = 200
         /\ HealthChecks(rd).redis_cache = "connected"
         /\ committed = {} => HealthChecks(rd).cache_data = <<>>
         /\ rd.got[KeyMetadata].run # 0 =>
              /\ rd.got[KeyMetadata].run \in committed
              /\ HealthChecks(rd).cache_data
                   = Metadata(ingested[rd.got[KeyMetadata].run])

\* a health check during which Redis failed was answered, after a run completed
C25_Witness ==
  /\ rd.pc = "done" /\ rd.op = "health" /\ rd.failed
  /\ rd.status = "degraded"
  /\ committed # {}

\* all runs so far were computed from the same table
SameInput ==
  \A r1, r2 \in 1..MaxRuns :
    (ingested[r1] # <<>> /\ ingested[r2] # <<>>) => ingested[r1] = ingested[r2]

\* what one run over table t stores under key k
StoredBy(k, t) ==
  CASE k = KeyCleaned -> t
    [] k \in {KeyBar, KeyHeatmap, KeyScatter} -> ChartGenerator(k, t)
    [] k = KeyInsights -> Insights(t)
    [] k \in SnapshotKeys -> RecipeFilter(k, t)

\* the keys one run over table t stores, metadata aside
KeysStoredBy(t) ==
  {KeyCleaned, KeyBar, KeyHeatmap, KeyScatter, KeyInsights}
    \cup {RecipeKeys(t)[i] : i \in DOMAIN RecipeKeys(t)}

FiltersChanged ==
  \/ ui'.selectedDiet # ui.selectedDiet
  \/ ui'.selectedCuisine # ui.selectedCuisine
  \/ ui'.searchQuery # ui.searchQuery

\* C26: every change of the selected diet, the selected cuisine or the search
\* query issues a recipe request for page 1 with the new filter values, which
\* resets the page.
C26_FilterChangeReloadsPageOne ==
  [][FiltersChanged =>
       /\ Len(inflight') = Len(inflight) + 1
       /\ inflight'[Len(inflight')] = RecipesRequest(ui', TRUE)]_vars

\* C27: with insights loaded and no request in flight, the page of the recipes
\* displayed is the current page.
C27_DisplayedPageIsCurrentPage ==
  (ui.insights /\ inflight = <<>> /\ ui.pagination.present)
    => ui.pagination.page = ui.currentPage

\* C28: the response to a recipe request issued before the request whose result
\* is displayed changes neither the recipes nor the pagination displayed.
C28_LateResponseDoesNotReplace ==
  [][\A i \in DOMAIN inflight :
       (inflight[i].stale /\ inflight' \in {Settle(i, TRUE), Settle(i, FALSE)})
         => (ui'.recipes = ui.recipes /\ ui'.pagination = ui.pagination)]_vars

\* C29: loading is true whenever a loadInsights or loadRecipes request is in
\* flight.
C29_LoadingWhileInFlight == inflight # <<>> => ui.loading

\* C30: with no request in flight, currentPage is at least 1 and at most
\* max(1, totalPages) of the result displayed.
C30_CurrentPageInRange ==
  (ui.mounted /\ inflight = <<>>)
    => /\ 1 <= ui.currentPage
       /\ ui.currentPage <= Max(1, totalPages(ui))

====
